---- MODULE Spec2Model ----
(***************************************************************************)
(* Entes Stats: the entity store of db.py (players, matches, player_stats   *)
(* on SQLite through SQLAlchemy) and its read queries: the perspective      *)
(* resolver, the match history, the team record, the per-player totals and  *)
(* the three rankings; and the pages of app.py with the login, the roles   *)
(* and the forms that write to the store.                                   *)
(*                                                                          *)
(* Conventions                                                              *)
(*  - Optional[T] is a sequence of length <= 1: None is << >>, a present    *)
(*    value v is <<v>>.  Reading the value of None (v[1]) is an evaluation  *)
(*    error, as comparing None with an int is a TypeError in Python.        *)
(*  - A str is the sequence of its code points; SQLite's BINARY collation   *)
(*    and Python's str comparison are both lexicographic on them.           *)
(*  - A table is the set of its rows; a row is a record with its id.        *)
(*  - The engine is SQLite: db.py runs PRAGMA table_info at import          *)
(*    (db.py:20-34), a statement of SQLite, before any query is served.     *)
(*  - The order of rows that an ORDER BY leaves tied is not fixed by SQL:   *)
(*    a query returns any one of the orders its ORDER BY admits.            *)
(*  - Columns that no operation here reads (rival, dorsal, posicion,       *)
(*    created_at) are left out of the rows.                                 *)
(*  - Goals, assists and scores are non-negative, as the forms of app.py    *)
(*    enter them (min_value=0).                                             *)
(***************************************************************************)
EXTENDS Integers, Sequences, FiniteSets, TLC

VARIABLES players, matches, stats, call, session_state, show_uploader, page

vars == <<players, matches, stats, call, session_state, show_uploader, page>>

\* the state of the browser session, which no function of db.py touches
ui == <<session_state, show_uploader, page>>

(***************************************************************************)
(* Bounds of the model                                                      *)
(***************************************************************************)
MaxMatches == 2

MaxScore == 1

EndToEndMaxScore == 3

MaxPlayers == 3

MaxFixtures == 1

MaxStats == 2

MaxGoals == 1

MaxRoster == 2

MaxAppearances == 2

MaxOrderMatches == 3

MaxFormScore == 1

MaxAppPlayers == 1

MaxAppStats == 1

(***************************************************************************)
(* Values                                                                   *)
(***************************************************************************)
None == << >>

Some(v) == <<v>>

OptionalOf(S) == {None} \cup {Some(v) : v \in S}

\* "2025-09-01"
DateA == <<50, 48, 50, 53, 45, 48, 57, 45, 48, 49>>

\* "2025-09-08"
DateB == <<50, 48, 50, 53, 45, 48, 57, 45, 48, 56>>

\* "2025-09": a prefix typed into the free-text date filter
MonthPrefix == <<50, 48, 50, 53, 45, 48, 57>>

\* "": the empty text
EmptyStr == << >>

Dates == {DateA, DateB}

\* what the callers pass as start_date / end_date
DateBounds == {None, Some(EmptyStr), Some(MonthPrefix), Some(DateA), Some(DateB)}

Scores == OptionalOf(0..MaxScore)

\* the names of the players
Names == {"Ana", "Beto"}

\* what the callers pass as the limit of a ranking
RankingLimits == (-1)..MaxPlayers

\* what the callers pass as (minutos, partidos_jugados)
AppearanceInputs ==
  {<<None, None>>, <<None, Some(MaxAppearances)>>, <<Some(MaxAppearances), None>>}

(***************************************************************************)
(* Helpers                                                                  *)
(***************************************************************************)
Max(S) == CHOOSE x \in S : \A y \in S : y <= x

Min2(a, b) == IF a <= b THEN a ELSE b

\* str < str: lexicographic on code points
StrLT(a, b) ==
  \E i \in 1..(Min2(Len(a), Len(b)) + 1) :
    /\ \A j \in 1..(i - 1) : a[j] = b[j]
    /\ \/ i > Len(a) /\ i <= Len(b)
       \/ i <= Len(a) /\ i <= Len(b) /\ a[i] < b[i]

StrLE(a, b) == a = b \/ StrLT(a, b)

\* Python truthiness of an Optional[str] argument: None and "" are falsy
TruthyStr(o) == o # None /\ o[1] # EmptyStr

\* Python truthiness of an Optional[int] argument: None and 0 are falsy
TruthyInt(o) == o # None /\ o[1] # 0

\* INTEGER PRIMARY KEY without AUTOINCREMENT: the largest rowid plus one
NextId(table) == IF table = {} THEN 1 ELSE Max({r.id : r \in table}) + 1

\* the orders of the rows of S that an ORDER BY admits: Before(a, b) holds
\* when the sort key puts a strictly before b
OrderedBy(S, Before(_, _)) ==
  {s \in [1..Cardinality(S) -> S] :
     /\ \A i, j \in 1..Cardinality(S) : i # j => s[i] # s[j]
     /\ \A i, j \in 1..Cardinality(S) : i < j => ~Before(s[j], s[i])}

\* variant: the last n rows instead of the first n
SqlLimitLast(rows, n) ==
  IF n < 0 \/ n >= Len(rows) THEN rows ELSE SubSeq(rows, Len(rows) - n + 1, Len(rows))

\* LIMIT n of SQLite: a negative n is no limit
SqlLimit(rows, n) ==
  IF n < 0 \/ n >= Len(rows) THEN rows ELSE SubSeq(rows, 1, n)

\* st.session_state with no key set: a function from the keys that are set
\* to their values
NoSession == [k \in {} |-> TRUE]

(***************************************************************************)
(* Matches                                                                  *)
(***************************************************************************)
Init ==
  /\ players = {}
  /\ matches = {}
  /\ stats = {}
  /\ call = [op |-> "init"]
  /\ session_state = NoSession
  /\ show_uploader = {}
  /\ page = None

create_match(fecha, local, home_score, away_score) ==
  LET m == [id |-> NextId(matches), fecha |-> fecha, local |-> local,
            home_score |-> home_score, away_score |-> away_score]
  IN /\ matches' = matches \cup {m}
     /\ call' = [op |-> "create_match", ret |-> m]
     /\ UNCHANGED <<players, stats>>

\* variant: no scoreline as soon as either score is missing
entes_scores_either_absent(m) ==
  IF m.home_score = None \/ m.away_score = None
  THEN [entes |-> None, opponent |-> None]
  ELSE IF m.local
       THEN [entes |-> m.home_score, opponent |-> m.away_score]
       ELSE [entes |-> m.away_score, opponent |-> m.home_score]

\* variant: the tracked team is always taken to be the home side
entes_scores_always_home(m) ==
  IF m.home_score = None /\ m.away_score = None
  THEN [entes |-> None, opponent |-> None]
  ELSE [entes |-> m.home_score, opponent |-> m.away_score]

entes_scores_from_match(m) ==
  IF m.home_score = None /\ m.away_score = None
  THEN [entes |-> None, opponent |-> None]
  ELSE IF m.local
       THEN [entes |-> m.home_score, opponent |-> m.away_score]
       ELSE [entes |-> m.away_score, opponent |-> m.home_score]

\* WHERE fecha >= :start_date, applied only when start_date is truthy
FilterStart(rows, start_date) ==
  IF TruthyStr(start_date)
  THEN {m \in rows : StrLE(start_date[1], m.fecha)}
  ELSE rows

\* variant: an exclusive end bound
FilterEndExclusive(rows, end_date) ==
  IF TruthyStr(end_date)
  THEN {m \in rows : StrLT(m.fecha, end_date[1])}
  ELSE rows

\* WHERE fecha <= :end_date, applied only when end_date is truthy
FilterEnd(rows, end_date) ==
  IF TruthyStr(end_date)
  THEN {m \in rows : StrLE(m.fecha, end_date[1])}
  ELSE rows

\* ORDER BY fecha DESC
FechaDesc(a, b) == StrLT(b.fecha, a.fecha)

\* the rows the query of get_match_history can return
HistoryRows(ms, limit, start_date, end_date) ==
  {IF TruthyInt(limit) THEN SqlLimit(q, limit[1]) ELSE q :
     q \in OrderedBy(FilterEnd(FilterStart(ms, start_date), end_date), FechaDesc)}

\* variant: a draw is reported as a win
ClassifyDrawAsWin(entes, opp) ==
  IF entes = None \/ opp = None
  THEN "PENDING"
  ELSE IF entes[1] >= opp[1] THEN "W"
       ELSE IF entes[1] = opp[1] THEN "D"
       ELSE "L"

\* the result string of one row, from its resolved goals
Classify(entes, opp) ==
  IF entes = None \/ opp = None
  THEN "PENDING"
  ELSE IF entes[1] > opp[1] THEN "W"
       ELSE IF entes[1] = opp[1] THEN "D"
       ELSE "L"

\* the dict appended to out for row m
HistoryItem(m) ==
  LET scores == entes_scores_from_match(m)
      entes == scores.entes
      opp == scores.opponent
  IN [id |-> m.id, fecha |-> m.fecha, local |-> m.local,
      entes_goals |-> entes, opponent_goals |-> opp,
      result |-> Classify(entes, opp),
      home_score |-> m.home_score, away_score |-> m.away_score]

\* the lists get_match_history can return on the table ms
MatchHistories(ms, limit, start_date, end_date) ==
  {[i \in 1..Len(rows) |-> HistoryItem(rows[i])] :
     rows \in HistoryRows(ms, limit, start_date, end_date)}

get_match_history(limit, start_date, end_date) ==
  /\ \E out \in MatchHistories(matches, limit, start_date, end_date) :
       call' = [op |-> "get_match_history", limit |-> limit,
                start_date |-> start_date, end_date |-> end_date, ret |-> out]
  /\ UNCHANGED <<players, matches, stats>>

\* variant: only a match with no score at all is skipped, a missing side
\* counting as 0 goals
RECURSIVE RecordLoopLoneScore(_, _, _)
RecordLoopLoneScore(history, i, acc) ==
  IF i > Len(history)
  THEN acc
  ELSE LET m == history[i]
       IN IF m.entes_goals = None /\ m.opponent_goals = None
          THEN RecordLoopLoneScore(history, i + 1, acc)
          ELSE LET e == IF m.entes_goals = None THEN 0 ELSE m.entes_goals[1]
                   o == IF m.opponent_goals = None THEN 0 ELSE m.opponent_goals[1]
               IN RecordLoopLoneScore(history, i + 1,
                    [played |-> acc.played + 1,
                     gf |-> acc.gf + e,
                     ga |-> acc.ga + o,
                     wins |-> IF e > o THEN acc.wins + 1 ELSE acc.wins,
                     draws |-> IF ~(e > o) /\ e = o THEN acc.draws + 1 ELSE acc.draws,
                     losses |-> IF ~(e > o) /\ ~(e = o) THEN acc.losses + 1 ELSE acc.losses])

\* one pass of the loop of get_team_record over history[i..]
RECURSIVE RecordLoop(_, _, _)
RecordLoop(history, i, acc) ==
  IF i > Len(history)
  THEN acc
  ELSE LET m == history[i]
       IN IF m.entes_goals = None \/ m.opponent_goals = None
          THEN RecordLoop(history, i + 1, acc)
          ELSE LET e == m.entes_goals[1]
                   o == m.opponent_goals[1]
               IN RecordLoop(history, i + 1,
                    [played |-> acc.played + 1,
                     gf |-> acc.gf + e,
                     ga |-> acc.ga + o,
                     wins |-> IF e > o THEN acc.wins + 1 ELSE acc.wins,
                     draws |-> IF ~(e > o) /\ e = o THEN acc.draws + 1 ELSE acc.draws,
                     losses |-> IF ~(e > o) /\ ~(e = o) THEN acc.losses + 1 ELSE acc.losses])

\* variant: the goal difference taken the other way round
TeamRecordSwappedDiff(history) ==
  LET acc == RecordLoop(history, 1,
               [played |-> 0, wins |-> 0, draws |-> 0, losses |-> 0, gf |-> 0, ga |-> 0])
      points == acc.wins * 3 + acc.draws
  IN [played |-> acc.played, wins |-> acc.wins, draws |-> acc.draws,
      losses |-> acc.losses, goals_for |-> acc.gf, goals_against |-> acc.ga,
      goal_diff |-> acc.ga - acc.gf, points |-> points]

\* the dict get_team_record builds from a history
TeamRecord(history) ==
  LET acc == RecordLoop(history, 1,
               [played |-> 0, wins |-> 0, draws |-> 0, losses |-> 0, gf |-> 0, ga |-> 0])
      points == acc.wins * 3 + acc.draws
  IN [played |-> acc.played, wins |-> acc.wins, draws |-> acc.draws,
      losses |-> acc.losses, goals_for |-> acc.gf, goals_against |-> acc.ga,
      goal_diff |-> acc.gf - acc.ga, points |-> points]

\* the records get_team_record can return on the table ms
TeamRecords(ms, start_date, end_date) ==
  {TeamRecord(h) : h \in MatchHistories(ms, None, start_date, end_date)}

get_team_record(start_date, end_date) ==
  /\ \E rec \in TeamRecords(matches, start_date, end_date) :
       call' = [op |-> "get_team_record", start_date |-> start_date,
                end_date |-> end_date, ret |-> rec]
  /\ UNCHANGED <<players, matches, stats>>

(***************************************************************************)
(* Players and player stats                                                 *)
(***************************************************************************)
create_player(nombre) ==
  LET player == [id |-> NextId(players), nombre |-> nombre, foto_path |-> None]
  IN /\ players' = players \cup {player}
     /\ call' = [op |-> "create_player", ret |-> player]
     /\ UNCHANGED <<matches, stats>>

\* setattr for every keyword that names an attribute of the player
Updated(player, kwargs) ==
  [k \in DOMAIN player |-> IF k \in DOMAIN kwargs THEN kwargs[k] ELSE player[k]]

\* kwargs: a function from keywords to values
update_player(player_id, kwargs) ==
  LET found == {p \in players : p.id = player_id}
  IN /\ IF found = {}
        THEN /\ UNCHANGED players
             /\ call' = [op |-> "update_player", player_id |-> player_id, ret |-> None]
        ELSE LET player == CHOOSE p \in found : TRUE
                 new == Updated(player, kwargs)
             IN /\ players' = (players \ found) \cup {new}
                /\ call' = [op |-> "update_player", player_id |-> player_id,
                            ret |-> Some(new)]
     /\ UNCHANGED <<matches, stats>>

\* the path fotos/<player_id>_<safe_name>.jpg, safe_name a function of nombre
PhotoPath(player_id, nombre) == [dir |-> "fotos", id |-> player_id, name |-> nombre]

\* file_buffer: "image" for a file Image.open can read, anything else raises
update_player_photo(player_id, file_buffer) ==
  LET found == {p \in players : p.id = player_id}
  IN /\ IF found = {}
        THEN /\ UNCHANGED players
             /\ call' = [op |-> "update_player_photo", raised |-> "ValueError"]
        ELSE IF file_buffer # "image"
        THEN /\ UNCHANGED players
             /\ call' = [op |-> "update_player_photo", raised |-> "UnidentifiedImageError"]
        ELSE LET player == CHOOSE p \in found : TRUE
                 path == PhotoPath(player_id, player.nombre)
             IN /\ players' = (players \ found) \cup {[player EXCEPT !.foto_path = Some(path)]}
                /\ call' = [op |-> "update_player_photo", raised |-> "", ret |-> path]
     /\ UNCHANGED <<matches, stats>>

\* variant: the matches the player has stat entries of are deleted as well
delete_player_and_matches(player_id) ==
  LET found == {p \in players : p.id = player_id}
      played == {s.match_id : s \in {t \in stats : t.player_id = player_id}}
  IN IF found # {}
     THEN /\ players' = players \ found
          /\ stats' = {s \in stats : s.player_id # player_id}
          /\ matches' = {m \in matches : m.id \notin played}
          /\ call' = [op |-> "delete_player", player_id |-> player_id, ret |-> TRUE]
     ELSE /\ UNCHANGED <<players, stats, matches>>
          /\ call' = [op |-> "delete_player", player_id |-> player_id, ret |-> FALSE]

\* variant: the stat entries of every player are deleted
delete_player_all_stats(player_id) ==
  LET found == {p \in players : p.id = player_id}
  IN /\ IF found # {}
        THEN /\ players' = players \ found
             /\ stats' = {}
             /\ call' = [op |-> "delete_player", player_id |-> player_id, ret |-> TRUE]
        ELSE /\ UNCHANGED <<players, stats>>
             /\ call' = [op |-> "delete_player", player_id |-> player_id, ret |-> FALSE]
     /\ UNCHANGED matches

\* variant: the stat entries of the player are left in the store
delete_player_no_cascade(player_id) ==
  LET found == {p \in players : p.id = player_id}
  IN /\ IF found # {}
        THEN /\ players' = players \ found
             /\ UNCHANGED stats
             /\ call' = [op |-> "delete_player", player_id |-> player_id, ret |-> TRUE]
        ELSE /\ UNCHANGED <<players, stats>>
             /\ call' = [op |-> "delete_player", player_id |-> player_id, ret |-> FALSE]
     /\ UNCHANGED matches

\* session.delete(player) also deletes player.stats (cascade of Player.stats)
delete_player(player_id) ==
  LET found == {p \in players : p.id = player_id}
  IN /\ IF found # {}
        THEN /\ players' = players \ found
             /\ stats' = {s \in stats : s.player_id # player_id}
             /\ call' = [op |-> "delete_player", player_id |-> player_id, ret |-> TRUE]
        ELSE /\ UNCHANGED <<players, stats>>
             /\ call' = [op |-> "delete_player", player_id |-> player_id, ret |-> FALSE]
     /\ UNCHANGED matches

\* variant: the match is not looked up
add_player_stats_any_match(player_id, match_id, goles, asistencias, minutos, partidos_jugados) ==
  LET player == {p \in players : p.id = player_id}
      match == {m \in matches : m.id = match_id}
      pj == IF partidos_jugados # None THEN partidos_jugados
            ELSE IF minutos # None THEN minutos
            ELSE None
      ps == [id |-> NextId(stats), player_id |-> player_id, match_id |-> match_id,
             goles |-> goles, asistencias |-> asistencias, partidos_jugados |-> pj]
  IN /\ IF player = {}
        THEN /\ UNCHANGED stats
             /\ call' = [op |-> "add_player_stats", player_id |-> player_id,
                         match_id |-> match_id, raised |-> "ValueError"]
        ELSE /\ stats' = stats \cup {ps}
             /\ call' = [op |-> "add_player_stats", player_id |-> player_id,
                         match_id |-> match_id, raised |-> "", ret |-> ps]
     /\ UNCHANGED <<players, matches>>

add_player_stats(player_id, match_id, goles, asistencias, minutos, partidos_jugados) ==
  LET player == {p \in players : p.id = player_id}
      match == {m \in matches : m.id = match_id}
      pj == IF partidos_jugados # None THEN partidos_jugados
            ELSE IF minutos # None THEN minutos
            ELSE None
      ps == [id |-> NextId(stats), player_id |-> player_id, match_id |-> match_id,
             goles |-> goles, asistencias |-> asistencias, partidos_jugados |-> pj]
  IN /\ IF player = {} \/ match = {}
        THEN /\ UNCHANGED stats
             /\ call' = [op |-> "add_player_stats", player_id |-> player_id,
                         match_id |-> match_id, raised |-> "ValueError"]
        ELSE /\ stats' = stats \cup {ps}
             /\ call' = [op |-> "add_player_stats", player_id |-> player_id,
                         match_id |-> match_id, raised |-> "", ret |-> ps]
     /\ UNCHANGED <<players, matches>>

\* the sum of f over the rows of S
RECURSIVE SumF(_, _)
SumF(S, f) ==
  IF S = {} THEN 0
  ELSE LET x == CHOOSE x \in S : TRUE IN f[x] + SumF(S \ {x}, f)

\* SUM(column) over the rows of a group: NULL when the group has no row
SqlSum(S, f) == IF S = {} THEN None ELSE Some(SumF(S, f))

\* COALESCE(x, d)
Coalesce(x, d) == IF x = None THEN d ELSE x[1]

\* variant: NULL larger than any value, the sort order of PostgreSQL
SqlLTNullsLargest(x, y) ==
  \/ x # None /\ y = None
  \/ x # None /\ y # None /\ x[1] < y[1]

\* x < y in the sort order of SQLite, where NULL is smaller than any value
SqlLT(x, y) ==
  \/ x = None /\ y # None
  \/ x # None /\ y # None /\ x[1] < y[1]

\* variant: the appearances are the sum of partidos_jugados
PlayerTotalsSumAppearances(st, player_id) ==
  LET rows == {s \in st : s.player_id = player_id}
      goles == Coalesce(SqlSum(rows, [s \in rows |-> s.goles]), 0)
      asistencias == Coalesce(SqlSum(rows, [s \in rows |-> s.asistencias]), 0)
      partidos == SumF(rows, [s \in rows |-> Coalesce(s.partidos_jugados, 0)])
  IN <<goles, asistencias, goles + asistencias, partidos>>

\* the tuple get_player_totals returns on the table st
PlayerTotals(st, player_id) ==
  LET rows == {s \in st : s.player_id = player_id}
      goles == Coalesce(SqlSum(rows, [s \in rows |-> s.goles]), 0)
      asistencias == Coalesce(SqlSum(rows, [s \in rows |-> s.asistencias]), 0)
      partidos == Cardinality(rows)
  IN <<goles, asistencias, goles + asistencias, partidos>>

get_player_totals(player_id) ==
  /\ call' = [op |-> "get_player_totals", player_id |-> player_id, raised |-> "",
              ret |-> PlayerTotals(stats, player_id)]
  /\ UNCHANGED <<players, matches, stats>>

\* variant: an inner join, which keeps only the players that have stats
InnerJoinedPlayers == {p \in players : \E s \in stats : s.player_id = p.id}

\* players LEFT OUTER JOIN player_stats GROUP BY players.id: one group for
\* every player, with or without stats
JoinedPlayers == players

\* the player_stats rows joined to player p
Group(p) == {s \in stats : s.player_id = p.id}

SumGoles(p) == SqlSum(Group(p), [s \in Group(p) |-> s.goles])

SumAsistencias(p) == SqlSum(Group(p), [s \in Group(p) |-> s.asistencias])

\* the selected column and the ORDER BY ... DESC of get_top_scorers
TotalGoles(p) == Coalesce(SumGoles(p), 0)

ScorersBefore(a, b) == SqlLT(SumGoles(b), SumGoles(a))

\* the selected column and the ORDER BY ... DESC of get_top_assisters
TotalAsistencias(p) == Coalesce(SumAsistencias(p), 0)

AssistersBefore(a, b) == SqlLT(SumAsistencias(b), SumAsistencias(a))

\* the selected column and the ORDER BY ... DESC of get_top_contributions
TotalContrib(p) == Coalesce(SumGoles(p), 0) + Coalesce(SumAsistencias(p), 0)

ContribBefore(a, b) == TotalContrib(b) < TotalContrib(a)

\* [(row[0], row[1], int(row[2] or 0)) for row in q.all()]
RankingOut(rows, Total(_)) ==
  [i \in 1..Len(rows) |-> <<rows[i].id, rows[i].nombre, Total(rows[i])>>]

TopScorers(limit) ==
  {RankingOut(SqlLimit(q, limit), TotalGoles) : q \in OrderedBy(JoinedPlayers, ScorersBefore)}

TopAssisters(limit) ==
  {RankingOut(SqlLimit(q, limit), TotalAsistencias) : q \in OrderedBy(JoinedPlayers, AssistersBefore)}

TopContributions(limit) ==
  {RankingOut(SqlLimit(q, limit), TotalContrib) : q \in OrderedBy(JoinedPlayers, ContribBefore)}

get_top_scorers(limit) ==
  /\ \E out \in TopScorers(limit) :
       call' = [op |-> "get_top_scorers", limit |-> limit, ret |-> out]
  /\ UNCHANGED <<players, matches, stats>>

get_top_assisters(limit) ==
  /\ \E out \in TopAssisters(limit) :
       call' = [op |-> "get_top_assisters", limit |-> limit, ret |-> out]
  /\ UNCHANGED <<players, matches, stats>>

get_top_contributions(limit) ==
  /\ \E out \in TopContributions(limit) :
       call' = [op |-> "get_top_contributions", limit |-> limit, ret |-> out]
  /\ UNCHANGED <<players, matches, stats>>

(***************************************************************************)
(* The reads                                                                *)
(***************************************************************************)
\* the functions of db.py that only read the store
ReadOps ==
  {"get_match_history", "get_team_record", "get_player_totals",
   "get_top_scorers", "get_top_assisters", "get_top_contributions"}

\* A read leaves the store as it is, so a read that follows a read reaches no
\* state that the first read does not reach: the reads are explored from the
\* states the writes leave.
AfterWrite == call.op \notin ReadOps

(***************************************************************************)
(* The match store and its two queries                                      *)
(***************************************************************************)
CreateAnyMatch ==
  /\ Cardinality(matches) < MaxMatches
  /\ \E fecha \in Dates, local \in BOOLEAN, hs \in Scores, aw \in Scores :
       create_match(fecha, local, hs, aw)
  /\ UNCHANGED ui

\* the whole history of a date range, as get_team_record asks for it
QueryWholeHistory ==
  /\ AfterWrite
  /\ \E sd \in DateBounds, ed \in DateBounds : get_match_history(None, sd, ed)
  /\ UNCHANGED ui

QueryRecord ==
  /\ AfterWrite
  /\ \E sd \in DateBounds, ed \in DateBounds : get_team_record(sd, ed)
  /\ UNCHANGED ui

NextRecord == CreateAnyMatch \/ QueryRecord

SpecRecord == Init /\ [][NextRecord]_vars

NextHistory == CreateAnyMatch \/ QueryWholeHistory

SpecHistory == Init /\ [][NextHistory]_vars

(***************************************************************************)
(* The roster, the stat entries and the rankings                            *)
(***************************************************************************)
CreateSomePlayer ==
  /\ Cardinality(players) < MaxPlayers
  /\ \E nombre \in Names : create_player(nombre)
  /\ UNCHANGED ui

\* one pending fixture for the stat entries to refer to
CreateFixture ==
  /\ Cardinality(matches) < MaxFixtures
  /\ create_match(DateA, TRUE, None, None)
  /\ UNCHANGED ui

AddSomeStats ==
  /\ Cardinality(stats) < MaxStats
  /\ \E player_id \in 1..MaxPlayers, match_id \in 1..MaxFixtures,
        goles \in 0..MaxGoals, asistencias \in 0..MaxGoals :
       add_player_stats(player_id, match_id, goles, asistencias, None, None)
  /\ UNCHANGED ui

QueryScorers ==
  /\ AfterWrite
  /\ \E limit \in RankingLimits : get_top_scorers(limit)
  /\ UNCHANGED ui

QueryAssisters ==
  /\ AfterWrite
  /\ \E limit \in RankingLimits : get_top_assisters(limit)
  /\ UNCHANGED ui

QueryContributions ==
  /\ AfterWrite
  /\ \E limit \in RankingLimits : get_top_contributions(limit)
  /\ UNCHANGED ui

NextRanking ==
  \/ CreateSomePlayer
  \/ CreateFixture
  \/ AddSomeStats
  \/ QueryScorers
  \/ QueryAssisters
  \/ QueryContributions

SpecRanking == Init /\ [][NextRanking]_vars

(***************************************************************************)
(* The end-to-end store: matches with a full scoreline                      *)
(***************************************************************************)
CreateScoredMatch ==
  /\ Cardinality(matches) < MaxMatches
  /\ \E fecha \in Dates, local \in BOOLEAN,
        hs \in 0..EndToEndMaxScore, aw \in 0..EndToEndMaxScore :
       create_match(fecha, local, Some(hs), Some(aw))
  /\ UNCHANGED ui

QueryWholeRecord ==
  /\ AfterWrite
  /\ get_team_record(None, None)
  /\ UNCHANGED ui

NextEndToEnd == CreateScoredMatch \/ QueryWholeRecord

SpecEndToEnd == Init /\ [][NextEndToEnd]_vars

(***************************************************************************)
(* The stat entries of a small roster and the per-player totals             *)
(***************************************************************************)
CreateRosterPlayer ==
  /\ Cardinality(players) < MaxRoster
  /\ \E nombre \in Names : create_player(nombre)
  /\ UNCHANGED ui

AddAppearanceStats ==
  /\ Cardinality(stats) < MaxStats
  /\ \E player_id \in 1..MaxRoster, match_id \in 1..MaxFixtures,
        goles \in 0..MaxGoals, asistencias \in 0..MaxGoals, ap \in AppearanceInputs :
       add_player_stats(player_id, match_id, goles, asistencias, ap[1], ap[2])
  /\ UNCHANGED ui

\* any id, of a player of the store or not
QueryTotals ==
  /\ AfterWrite
  /\ \E player_id \in 1..(MaxRoster + 1) : get_player_totals(player_id)
  /\ UNCHANGED ui

NextTotals == CreateRosterPlayer \/ CreateFixture \/ AddAppearanceStats \/ QueryTotals

SpecTotals == Init /\ [][NextTotals]_vars

(***************************************************************************)
(* The whole store: every write of db.py and the reads                      *)
(***************************************************************************)
\* ids of players and of matches, one more than the store can hold
PlayerIds == 1..(MaxRoster + 1)

MatchIds == 1..(MaxFixtures + 1)

\* keywords for update_player; apodo is no attribute of Player
PlayerKwargs == {[nombre |-> n] : n \in Names} \cup {[apodo |-> "Mago"]}

FileBuffers == {"image", "text"}

StoreCreatePlayer ==
  /\ Cardinality(players) < MaxRoster
  /\ \E nombre \in Names : create_player(nombre)
  /\ UNCHANGED ui

StoreCreateMatch ==
  /\ Cardinality(matches) < MaxFixtures
  /\ \E local \in BOOLEAN, sc \in {None, Some(MaxScore)} :
       create_match(DateA, local, sc, sc)
  /\ UNCHANGED ui

StoreAddStats ==
  /\ Cardinality(stats) < MaxStats
  /\ \E player_id \in PlayerIds, match_id \in MatchIds, goles \in 0..MaxGoals :
       add_player_stats(player_id, match_id, goles, 0, None, None)
  /\ UNCHANGED ui

StoreDeletePlayer ==
  /\ \E player_id \in PlayerIds : delete_player(player_id)
  /\ UNCHANGED ui

StoreUpdatePlayer ==
  /\ \E player_id \in PlayerIds, kwargs \in PlayerKwargs : update_player(player_id, kwargs)
  /\ UNCHANGED ui

StoreUpdatePhoto ==
  /\ \E player_id \in PlayerIds, file_buffer \in FileBuffers :
       update_player_photo(player_id, file_buffer)
  /\ UNCHANGED ui

StoreQueryTotals ==
  /\ AfterWrite
  /\ \E player_id \in PlayerIds : get_player_totals(player_id)
  /\ UNCHANGED ui

StoreQueryHistory ==
  /\ AfterWrite
  /\ get_match_history(None, None, None)
  /\ UNCHANGED ui

StoreQueryRecord ==
  /\ AfterWrite
  /\ get_team_record(None, None)
  /\ UNCHANGED ui

StoreQueryRanking ==
  /\ AfterWrite
  /\ \/ get_top_scorers(MaxRoster)
     \/ get_top_assisters(MaxRoster)
     \/ get_top_contributions(MaxRoster)
  /\ UNCHANGED ui

NextStore ==
  \/ StoreCreatePlayer
  \/ StoreCreateMatch
  \/ StoreAddStats
  \/ StoreDeletePlayer
  \/ StoreUpdatePlayer
  \/ StoreUpdatePhoto
  \/ StoreQueryTotals
  \/ StoreQueryHistory
  \/ StoreQueryRecord
  \/ StoreQueryRanking

SpecStore == Init /\ [][NextStore]_vars

(***************************************************************************)
(* Two matches under every operation of the store                           *)
(***************************************************************************)
LedgerCreatePlayer ==
  /\ Cardinality(players) < MaxAppPlayers
  /\ \E nombre \in Names : create_player(nombre)
  /\ UNCHANGED ui

LedgerCreateMatch ==
  /\ Cardinality(matches) < MaxMatches
  /\ \E fecha \in Dates, local \in BOOLEAN, sc \in {None, Some(MaxScore)} :
       create_match(fecha, local, sc, sc)
  /\ UNCHANGED ui

LedgerAddStats ==
  /\ Cardinality(stats) < MaxAppStats
  /\ \E player_id \in 1..MaxAppPlayers, match_id \in 1..MaxMatches :
       add_player_stats(player_id, match_id, MaxGoals, 0, None, None)
  /\ UNCHANGED ui

LedgerDeletePlayer ==
  /\ \E player_id \in 1..MaxAppPlayers : delete_player(player_id)
  /\ UNCHANGED ui

LedgerUpdatePlayer ==
  /\ \E player_id \in 1..MaxAppPlayers, kwargs \in PlayerKwargs :
       update_player(player_id, kwargs)
  /\ UNCHANGED ui

LedgerUpdatePhoto ==
  /\ \E player_id \in 1..MaxAppPlayers, file_buffer \in FileBuffers :
       update_player_photo(player_id, file_buffer)
  /\ UNCHANGED ui

LedgerRead ==
  /\ AfterWrite
  /\ \/ get_match_history(None, None, None)
     \/ get_team_record(None, None)
     \/ get_player_totals(MaxAppPlayers)
     \/ get_top_scorers(MaxAppPlayers)
     \/ get_top_assisters(MaxAppPlayers)
     \/ get_top_contributions(MaxAppPlayers)
  /\ UNCHANGED ui

NextLedger ==
  \/ LedgerCreatePlayer
  \/ LedgerCreateMatch
  \/ LedgerAddStats
  \/ LedgerDeletePlayer
  \/ LedgerUpdatePlayer
  \/ LedgerUpdatePhoto
  \/ LedgerRead

SpecLedger == Init /\ [][NextLedger]_vars

(***************************************************************************)
(* The order of the match history                                           *)
(***************************************************************************)
\* the limits the callers pass: none, 0, and the positive ones
HistoryLimits == OptionalOf(0..MaxOrderMatches)

CreateDatedMatch ==
  /\ Cardinality(matches) < MaxOrderMatches
  /\ \E fecha \in Dates, local \in BOOLEAN : create_match(fecha, local, None, None)
  /\ UNCHANGED ui

QueryLimitedHistory ==
  /\ AfterWrite
  /\ \E limit \in HistoryLimits : get_match_history(limit, None, None)
  /\ UNCHANGED ui

NextOrder == CreateDatedMatch \/ QueryLimitedHistory

SpecOrder == Init /\ [][NextOrder]_vars

(***************************************************************************)
(* The pages of app.py: one action for each run of the script that a button *)
(* or a form of the page starts.  show_uploader holds the player ids p for  *)
(* which the key show_uploader_<p> of st.session_state is set; the          *)
(* flash_message key, shown and deleted by the next run, is left out.       *)
(***************************************************************************)
\* the passwords of the deployment (secrets or environment)
ADMIN_PW == "admin-pw"

VIEWER_PWS == {"viewer-pw"}

\* what a visitor may type into the password field and the user field
PasswordInputs == {"admin-pw", "viewer-pw", "guess", ""}

UsernameInputs == {"", "pepe"}

\* the names typed into the player form; " " is blank after strip()
NombreInputs == {"Ana", " "}

Strip(nombre) == IF nombre = " " THEN "" ELSE nombre

\* session_state with key k set to v
SetKey(state, k, v) ==
  [x \in DOMAIN state \cup {k} |-> IF x = k THEN v ELSE state[x]]

\* session_state without the keys of K
DelKeys(state, K) == [x \in DOMAIN state \ K |-> state[x]]

\* "authenticated" in st.session_state and st.session_state.get("authenticated")
Authenticated(state) ==
  "authenticated" \in DOMAIN state /\ state["authenticated"] = TRUE

\* st.session_state.get("role", None)
RoleOf(state) == IF "role" \in DOMAIN state THEN Some(state["role"]) ELSE None

\* variant: every session that has a role sees the pages of the admin
PAGES_all_roles(role) ==
  IF role # None
  THEN <<"Inicio", "Crear jugador", "Crear partido", "Anadir estadisticas",
         "Reportes", "Eliminar jugador", "Editar estadisticas">>
  ELSE << >>

PAGES(role) ==
  IF role = Some("admin")
  THEN <<"Inicio", "Crear jugador", "Crear partido", "Anadir estadisticas",
         "Reportes", "Eliminar jugador", "Editar estadisticas">>
  ELSE IF role = Some("viewer") THEN <<"Inicio", "Reportes">>
  ELSE << >>

\* the pages as a set
PageSet(role) == {PAGES(role)[i] : i \in 1..Len(PAGES(role))}

\* the selectbox of a run that draws it anew: its first option, or no page
FirstPage(state) ==
  IF PAGES(RoleOf(state)) = << >> THEN None ELSE Some(PAGES(RoleOf(state))[1])

\* the role the password gives
RoleFor(password_input) ==
  IF ADMIN_PW # "" /\ password_input = ADMIN_PW THEN Some("admin")
  ELSE IF VIEWER_PWS # {} /\ password_input \in VIEWER_PWS THEN Some("viewer")
  ELSE None

\* the button Entrar of the login form
entrar(username_input, password_input) ==
  LET role == RoleFor(password_input)
      username == IF username_input # "" THEN username_input ELSE role[1]
  IN /\ ~Authenticated(session_state)
     /\ session_state' =
          IF role # None
          THEN SetKey(SetKey(SetKey(session_state, "authenticated", TRUE),
                             "role", role[1]), "username", username)
          ELSE session_state
     /\ page' = FirstPage(session_state')
     /\ call' = [op |-> "entrar", password_input |-> password_input]
     /\ UNCHANGED <<players, matches, stats, show_uploader>>

\* the button Salir
salir ==
  /\ Authenticated(session_state)
  /\ session_state' = DelKeys(session_state, {"authenticated", "role", "username"})
  /\ page' = FirstPage(session_state')
  /\ call' = [op |-> "salir"]
  /\ UNCHANGED <<players, matches, stats, show_uploader>>

\* the selectbox Navegar
navegar(p) ==
  /\ p \in PageSet(RoleOf(session_state))
  /\ page' = Some(p)
  /\ call' = [op |-> "navegar", page |-> p]
  /\ UNCHANGED <<players, matches, stats, session_state, show_uploader>>

\* the run is on page p and goes past its role check
OnAdminPage(p) == page = Some(p) /\ RoleOf(session_state) = Some("admin")

\* Inicio: the button Cambiar foto of a player
cambiar_foto(player_id) ==
  /\ page = Some("Inicio")
  /\ RoleOf(session_state) = Some("admin")
  /\ \E p \in players : p.id = player_id
  /\ show_uploader' = show_uploader \cup {player_id}
  /\ call' = [op |-> "cambiar_foto", player_id |-> player_id]
  /\ UNCHANGED <<players, matches, stats, session_state, page>>

\* Inicio: a file given to the uploader of a player
subir_foto(player_id, up) ==
  /\ page = Some("Inicio")
  /\ RoleOf(session_state) = Some("admin")
  /\ \E p \in players : p.id = player_id
  /\ player_id \in show_uploader
  /\ update_player_photo(player_id, up)
  /\ show_uploader' = IF call'.raised = "" THEN show_uploader \ {player_id}
                      ELSE show_uploader
  /\ UNCHANGED <<session_state, page>>

\* Crear jugador: the form, with no photo attached
player_form(nombre) ==
  /\ OnAdminPage("Crear jugador")
  /\ IF Strip(nombre) = ""
     THEN /\ call' = [op |-> "player_form", error |-> "El nombre es obligatorio."]
          /\ UNCHANGED <<players, matches, stats>>
     ELSE create_player(Strip(nombre))
  /\ UNCHANGED ui

\* Crear partido: the form; an entered 0 is passed on as None
match_form(fecha, local, home_score, away_score) ==
  LET hs == IF home_score > 0 THEN Some(home_score) ELSE None
      aw == IF away_score > 0 THEN Some(away_score) ELSE None
  IN /\ OnAdminPage("Crear partido")
     /\ create_match(fecha, local, hs, aw)
     /\ UNCHANGED ui

\* Anadir estadisticas: the form, its selectboxes offering the players and
\* the matches of the store
stats_form(player_sel, match_sel, goles, asistencias, partidos_jugados) ==
  LET pj_val == IF partidos_jugados > 0 THEN Some(partidos_jugados) ELSE None
  IN /\ OnAdminPage("Anadir estadisticas")
     /\ \E p \in players : p.id = player_sel
     /\ \E m \in matches : m.id = match_sel
     /\ add_player_stats(player_sel, match_sel, goles, asistencias, None, pj_val)
     /\ UNCHANGED ui

\* Eliminar jugador: the button, the selectbox offering the players
eliminar_jugador(selected) ==
  /\ OnAdminPage("Eliminar jugador")
  /\ \E p \in players : p.id = selected
  /\ delete_player(selected)
  /\ UNCHANGED ui

\* db.update_player_stats, as app.py:380 calls it
update_player_stats(stat_id, goles, asistencias, partidos_jugados) ==
  LET found == {s \in stats : s.id = stat_id}
  IN /\ IF found = {}
        THEN /\ UNCHANGED stats
             /\ call' = [op |-> "update_player_stats", ret |-> None]
        ELSE LET old == CHOOSE s \in found : TRUE
                 new == [old EXCEPT !.goles = goles, !.asistencias = asistencias,
                                    !.partidos_jugados = partidos_jugados]
             IN /\ stats' = (stats \ found) \cup {new}
                /\ call' = [op |-> "update_player_stats", ret |-> Some(new)]
     /\ UNCHANGED <<players, matches>>

\* db.delete_player_stats, as app.py:393 calls it
delete_player_stats(stat_id) ==
  LET found == {s \in stats : s.id = stat_id}
  IN /\ stats' = stats \ found
     /\ call' = [op |-> "delete_player_stats", ret |-> found # {}]
     /\ UNCHANGED <<players, matches>>

\* Editar estadisticas: the button Guardar cambios of the form
edit_stat_form_save(stat_id, new_goles, new_asist, new_pjs) ==
  LET pj_val == IF new_pjs > 0 THEN Some(new_pjs) ELSE None
  IN /\ OnAdminPage("Editar estadisticas")
     /\ \E s \in stats : s.id = stat_id
     /\ update_player_stats(stat_id, new_goles, new_asist, pj_val)
     /\ UNCHANGED ui

\* Editar estadisticas: the button Eliminar esta estadistica, confirmed
edit_stat_form_delete(stat_id) ==
  /\ OnAdminPage("Editar estadisticas")
  /\ \E s \in stats : s.id = stat_id
  /\ delete_player_stats(stat_id)
  /\ UNCHANGED ui

\* Reportes: the reads of the page, open to both roles
reportes ==
  /\ page = Some("Reportes")
  /\ AfterWrite
  /\ \/ get_top_scorers(10)
     \/ get_top_assisters(10)
     \/ get_top_contributions(10)
     \/ get_team_record(None, None)
     \/ get_match_history(None, None, None)
  /\ UNCHANGED ui

Entrar ==
  \E username_input \in UsernameInputs, password_input \in PasswordInputs :
    entrar(username_input, password_input)

Navegar ==
  \E p \in PageSet(Some("admin")) : navegar(p)

CambiarFoto ==
  \E player_id \in 1..MaxAppPlayers : cambiar_foto(player_id)

SubirFoto ==
  \E player_id \in 1..MaxAppPlayers, up \in FileBuffers : subir_foto(player_id, up)

PlayerForm ==
  /\ Cardinality(players) < MaxAppPlayers
  /\ \E nombre \in NombreInputs : player_form(nombre)

MatchForm ==
  /\ Cardinality(matches) < MaxFixtures
  /\ \E local \in BOOLEAN, home_score \in 0..MaxFormScore, away_score \in 0..MaxFormScore :
       match_form(DateA, local, home_score, away_score)

StatsForm ==
  /\ Cardinality(stats) < MaxAppStats
  /\ \E player_sel \in 1..MaxAppPlayers, match_sel \in 1..MaxFixtures,
        goles \in 0..MaxGoals :
       stats_form(player_sel, match_sel, goles, 0, 0)

EliminarJugador ==
  \E selected \in 1..MaxAppPlayers : eliminar_jugador(selected)

EditStatFormSave ==
  \E stat_id \in 1..MaxAppStats, new_goles \in 0..MaxGoals :
    edit_stat_form_save(stat_id, new_goles, 0, 0)

EditStatFormDelete ==
  \E stat_id \in 1..MaxAppStats : edit_stat_form_delete(stat_id)

NextApp ==
  \/ Entrar
  \/ salir
  \/ Navegar
  \/ CambiarFoto
  \/ SubirFoto
  \/ PlayerForm
  \/ MatchForm
  \/ StatsForm
  \/ EliminarJugador
  \/ EditStatFormSave
  \/ EditStatFormDelete
  \/ reportes

SpecApp == Init /\ [][NextApp]_vars

(***************************************************************************)
(* The claims                                                               *)
(***************************************************************************)
IsQuery(op) == call.op = op

\* a bound is supplied when it is a non-empty string: None and "" both
\* stand for no bound (app.py:270-271 passes None for an empty text)
Supplied(bound) == bound # None /\ bound # Some(EmptyStr)

\* start <= fecha <= end, for whichever of the two bounds is supplied
InDateRange(fecha, sd, ed) ==
  /\ Supplied(sd) => StrLE(sd[1], fecha)
  /\ Supplied(ed) => StrLE(fecha, ed[1])

HasBothScores(m) == m.home_score # None /\ m.away_score # None

HasLoneScore(m) == (m.home_score = None) # (m.away_score = None)

\* the goals of the tracked team and of the opponent, by the is_home rule
TrackedScore(m) == IF m.local THEN m.home_score ELSE m.away_score

OpponentScore(m) == IF m.local THEN m.away_score ELSE m.home_score

\* C1: the resolver returns (None, None) when both scores are absent, and
\* otherwise maps home_score / away_score to tracked / opponent by is_home,
\* a lone score included; get_match_history reports these goals for every row.
C1_Resolver ==
  /\ \A m \in matches :
       LET r == entes_scores_from_match(m)
       IN IF m.home_score = None /\ m.away_score = None
          THEN r.entes = None /\ r.opponent = None
          ELSE r.entes = TrackedScore(m) /\ r.opponent = OpponentScore(m)
  /\ IsQuery("get_match_history") =>
       \A i \in 1..Len(call.ret) :
         LET it == call.ret[i]
         IN /\ it.entes_goals = TrackedScore(it)
            /\ it.opponent_goals = OpponentScore(it)

\* the tracked team played away and only its own score was recorded
C1_Witness ==
  /\ IsQuery("get_match_history")
  /\ \E i \in 1..Len(call.ret) :
       /\ ~call.ret[i].local
       /\ call.ret[i].home_score = None
       /\ call.ret[i].away_score = Some(1)
       /\ call.ret[i].entes_goals = Some(1)
       /\ call.ret[i].opponent_goals = None

\* the number of items of history with the given result
CountResult(history, result) ==
  Cardinality({i \in 1..Len(history) : history[i].result = result})

\* C2: every item of the history is PENDING when either side is None and
\* otherwise W, D or L as tracked >, =, < opponent, with no evaluation error;
\* get_team_record counts wins, draws and losses as the history classifies them.
C2_Classification ==
  IsQuery("get_team_record") =>
    \A h \in MatchHistories(matches, None, call.start_date, call.end_date) :
      /\ \A i \in 1..Len(h) :
           LET e == h[i].entes_goals
               o == h[i].opponent_goals
           IN IF e = None \/ o = None
              THEN h[i].result = "PENDING"
              ELSE /\ h[i].result \in {"W", "D", "L"}
                   /\ h[i].result = "W" <=> e[1] > o[1]
                   /\ h[i].result = "D" <=> e[1] = o[1]
                   /\ h[i].result = "L" <=> e[1] < o[1]
      /\ call.ret.wins = CountResult(h, "W")
      /\ call.ret.draws = CountResult(h, "D")
      /\ call.ret.losses = CountResult(h, "L")
      /\ call.ret.played = Len(h) - CountResult(h, "PENDING")

\* a record over a draw and a match with a lone score
C2_Witness ==
  /\ IsQuery("get_team_record")
  /\ call.ret.draws = 1
  /\ call.ret.played = 1
  /\ \E m \in matches :
       HasLoneScore(m) /\ InDateRange(m.fecha, call.start_date, call.end_date)

\* C3: creating a pending match (no score, or a lone score) leaves the team
\* record of every date range unchanged, counter by counter.
C3_PendingInvisible ==
  [][(call'.op = "create_match" /\ ~HasBothScores(call'.ret)) =>
       \A sd \in DateBounds, ed \in DateBounds :
         \A before \in TeamRecords(matches, sd, ed), after \in TeamRecords(matches', sd, ed) :
           /\ after.played = before.played
           /\ after.wins = before.wins
           /\ after.draws = before.draws
           /\ after.losses = before.losses
           /\ after.goals_for = before.goals_for
           /\ after.goals_against = before.goals_against
           /\ after.goal_diff = before.goal_diff
           /\ after.points = before.points]_vars

\* a match with a lone score was added to a store that holds a counted match
C3_Witness ==
  /\ IsQuery("create_match")
  /\ HasLoneScore(call.ret)
  /\ \E m \in matches : HasBothScores(m) /\ m.fecha = call.ret.fecha

\* C4: every record get_team_record returns has played = wins + draws +
\* losses, goal_diff = goals_for - goals_against and points = 3*wins + draws,
\* and is all zero when no match of the range has both scores.
C4_RecordIdentities ==
  IsQuery("get_team_record") =>
    LET r == call.ret
        counted == {m \in matches : /\ HasBothScores(m)
                                    /\ InDateRange(m.fecha, call.start_date, call.end_date)}
    IN /\ r.played = r.wins + r.draws + r.losses
       /\ r.goal_diff = r.goals_for - r.goals_against
       /\ r.points = 3 * r.wins + r.draws
       /\ counted = {} =>
            r = [played |-> 0, wins |-> 0, draws |-> 0, losses |-> 0, goals_for |-> 0,
                 goals_against |-> 0, goal_diff |-> 0, points |-> 0]

\* a record over a win and a loss, in a bounded date range
C4_Witness ==
  /\ IsQuery("get_team_record")
  /\ call.start_date = Some(DateA)
  /\ call.ret.wins = 1
  /\ call.ret.losses = 1
  /\ call.ret.goal_diff = 0
  /\ call.ret.points = 3

\* Match A and Match B of the end-to-end example, without their ids
MatchA == [fecha |-> DateA, local |-> TRUE, home_score |-> Some(3), away_score |-> Some(1)]

MatchB == [fecha |-> DateB, local |-> FALSE, home_score |-> Some(2), away_score |-> Some(0)]

WithoutId(m) ==
  [fecha |-> m.fecha, local |-> m.local, home_score |-> m.home_score,
   away_score |-> m.away_score]

HoldsExactlyAandB ==
  /\ Cardinality(matches) = 2
  /\ {WithoutId(m) : m \in matches} = {MatchA, MatchB}

\* C5: on the store that holds exactly Match A and Match B, get_team_record()
\* returns played 2, wins 1, draws 0, losses 1, goals 3-3, goal_diff 0, points 3.
C5_EndToEnd ==
  (IsQuery("get_team_record") /\ call.start_date = None /\ call.end_date = None
     /\ HoldsExactlyAandB) =>
    call.ret = [played |-> 2, wins |-> 1, draws |-> 0, losses |-> 1, goals_for |-> 3,
                goals_against |-> 3, goal_diff |-> 0, points |-> 3]

C5_Witness ==
  /\ IsQuery("get_team_record")
  /\ call.start_date = None
  /\ call.end_date = None
  /\ HoldsExactlyAandB

\* the sum of the goals of the given side over the matches of S
RECURSIVE GoalsOver(_, _)
GoalsOver(S, tracked) ==
  IF S = {} THEN 0
  ELSE LET m == CHOOSE m \in S : TRUE
       IN (IF tracked THEN TrackedScore(m)[1] ELSE OpponentScore(m)[1])
          + GoalsOver(S \ {m}, tracked)

\* C6: the whole history holds exactly the matches with start <= fecha <= end
\* for whichever bound is supplied, both bounds inclusive, and every match
\* when none is; get_team_record counts exactly the scored matches among them.
C6_DateRange ==
  IsQuery("get_match_history") =>
    LET inRange == {m \in matches : InDateRange(m.fecha, call.start_date, call.end_date)}
        counted == {m \in inRange : HasBothScores(m)}
    IN /\ Len(call.ret) = Cardinality(inRange)
       /\ {call.ret[i].id : i \in 1..Len(call.ret)} = {m.id : m \in inRange}
       /\ (~Supplied(call.start_date) /\ ~Supplied(call.end_date)) =>
            Len(call.ret) = Cardinality(matches)
       /\ \A r \in TeamRecords(matches, call.start_date, call.end_date) :
            /\ r.played = Cardinality(counted)
            /\ r.goals_for = GoalsOver(counted, TRUE)
            /\ r.goals_against = GoalsOver(counted, FALSE)

\* both bounds equal the date of one of two matches: it alone is returned
C6_Witness ==
  /\ IsQuery("get_match_history")
  /\ call.start_date = Some(DateB)
  /\ call.end_date = Some(DateB)
  /\ Cardinality(matches) = 2
  /\ Len(call.ret) = 1
  /\ call.ret[1].fecha = DateB

\* the sum of goles over rows, as the count of the rows of each value
RECURSIVE GolesUpTo(_, _)
GolesUpTo(rows, k) ==
  IF k <= 0 THEN 0
  ELSE k * Cardinality({r \in rows : r.goles = k}) + GolesUpTo(rows, k - 1)

\* the sum of asistencias over rows, as the count of the rows of each value
RECURSIVE AsistenciasUpTo(_, _)
AsistenciasUpTo(rows, k) ==
  IF k <= 0 THEN 0
  ELSE k * Cardinality({r \in rows : r.asistencias = k}) + AsistenciasUpTo(rows, k - 1)

\* C7: get_player_totals returns the sums of goals and of assists over all
\* the entries of the player (entries of one (player, match) pair all summed),
\* their sum as contributions, and the number of entries as appearances_count
\* (not the sum of partidos_jugados); (0, 0, 0, 0) for a player with no entry.
C7_PlayerTotals ==
  IsQuery("get_player_totals") =>
    LET rows == {s \in stats : s.player_id = call.player_id}
        g == GolesUpTo(rows, MaxGoals)
        a == AsistenciasUpTo(rows, MaxGoals)
    IN /\ call.ret = <<g, a, g + a, Cardinality(rows)>>
       /\ rows = {} => call.ret = <<0, 0, 0, 0>>

\* two entries of one (player, match) pair, each with partidos_jugados = 2
C7_Witness ==
  /\ IsQuery("get_player_totals")
  /\ \E s1 \in stats, s2 \in stats :
       /\ s1.id # s2.id
       /\ s1.player_id = call.player_id /\ s2.player_id = call.player_id
       /\ s1.match_id = s2.match_id
       /\ s1.goles = 1 /\ s2.goles = 1
       /\ s1.partidos_jugados = Some(MaxAppearances)
       /\ s2.partidos_jugados = Some(MaxAppearances)
  /\ call.ret[1] = 2
  /\ call.ret[4] = 2

IsRanking ==
  call.op \in {"get_top_scorers", "get_top_assisters", "get_top_contributions"}

\* C8: with a limit of at least the number of players, a ranking holds every
\* player of the store exactly once, under its name, and a player with no
\* stat entry has the value 0.
C8_EveryPlayerRanked ==
  (IsRanking /\ call.limit >= Cardinality(players)) =>
    /\ Len(call.ret) = Cardinality(players)
    /\ \A p \in players :
         /\ Cardinality({i \in 1..Len(call.ret) : call.ret[i][1] = p.id}) = 1
         /\ \A i \in 1..Len(call.ret) :
              call.ret[i][1] = p.id =>
                /\ call.ret[i][2] = p.nombre
                /\ ({s \in stats : s.player_id = p.id} = {} => call.ret[i][3] = 0)

\* three players, one of them with no stat entry, and a limit of three
C8_Witness ==
  /\ IsQuery("get_top_assisters")
  /\ Cardinality(players) = 3
  /\ call.limit = 3
  /\ \E p \in players : {s \in stats : s.player_id = p.id} = {}
  /\ \E i \in 1..Len(call.ret) : call.ret[i][3] = 1

\* C9: a ranking is in descending order of the value it reports, so the
\* players of value 0, with or without stat entries, come after every player
\* of a positive value.
C9_SortedDescending ==
  IsRanking =>
    \A i, j \in 1..Len(call.ret) :
      i < j =>
        /\ call.ret[i][3] >= call.ret[j][3]
        /\ call.ret[i][3] = 0 => call.ret[j][3] = 0

\* a scorer, a player whose entries sum to 0 and a player with no entry
C9_Witness ==
  /\ IsQuery("get_top_scorers")
  /\ Len(call.ret) = 3
  /\ call.ret[1][3] = 1
  /\ call.ret[2][3] = 0
  /\ call.ret[3][3] = 0
  /\ \E s \in stats : s.player_id = call.ret[2][1]
  /\ \A s \in stats : s.player_id # call.ret[3][1]

\* C10: in a ranking, players of equal value are in ascending order of id.
C10_TieBreakById ==
  IsRanking =>
    \A i, j \in 1..Len(call.ret) :
      (i < j /\ call.ret[i][3] = call.ret[j][3]) => call.ret[i][1] < call.ret[j][1]

\* the rankings of one metric that the query can return without a limit
FullRankings(op) ==
  IF op = "get_top_scorers" THEN TopScorers(-1)
  ELSE IF op = "get_top_assisters" THEN TopAssisters(-1)
  ELSE TopContributions(-1)

\* C11: with a limit above 0 a ranking has min(limit, number of players)
\* entries, and they are the first entries of a full ranking of the same
\* metric.
C11_LimitIsPrefix ==
  (IsRanking /\ call.limit > 0) =>
    /\ Len(call.ret) = Min2(call.limit, Cardinality(players))
    /\ \E full \in FullRankings(call.op) :
         /\ Len(full) = Cardinality(players)
         /\ call.ret = SubSeq(full, 1, Len(call.ret))

\* three players of different contributions, the first two of them asked for
C11_Witness ==
  /\ IsQuery("get_top_contributions")
  /\ Cardinality(players) = 3
  /\ call.limit = 2
  /\ Len(call.ret) = 2
  /\ call.ret[1][3] = 2
  /\ call.ret[2][3] = 1

\* C12: every stat entry refers to a player of the store and to a match of
\* the store.
C12_NoOrphanStats ==
  \A s \in stats :
    /\ \E p \in players : p.id = s.player_id
    /\ \E m \in matches : m.id = s.match_id

\* a player has just been deleted and the store still holds stat entries,
\* all of them of the other player
C12_Witness ==
  /\ call.op = "delete_player"
  /\ call.ret = TRUE
  /\ stats # {}
  /\ \A p \in players : p.id # call.player_id

\* the step is a delete_player that found its player
DeletesPlayer == call'.op = "delete_player" /\ call'.ret = TRUE

\* what a delete_player of an existing player does to the store
DeleteEffect ==
  DeletesPlayer =>
    LET p == call'.player_id
    IN /\ players' = {q \in players : q.id # p}
       /\ stats' = {s \in stats : s.player_id # p}
       /\ \A q \in players' : PlayerTotals(stats', q.id) = PlayerTotals(stats, q.id)
       /\ matches' = matches

\* the step asks for the totals of the player the step before it deleted
TotalsOfDeleted ==
  /\ call.op = "delete_player"
  /\ call.ret = TRUE
  /\ call'.op = "get_player_totals"
  /\ call'.player_id = call.player_id

\* C13 as stated: delete_player of an existing player removes the player and
\* the player's stat entries and leaves the other players' entries and totals
\* and every match as they are; get_player_totals of the deleted player is
\* then an error.
C13_DeletedTotalsRaise ==
  [][DeleteEffect /\ (TotalsOfDeleted => call'.raised # "")]_vars

\* C13 amended: delete_player of an existing player removes the player and
\* the player's stat entries and leaves the other players' entries and totals
\* and every match as they are; get_player_totals of the deleted player then
\* returns (0, 0, 0, 0) and raises nothing.
C13_DeletePlayer ==
  [][/\ DeleteEffect
     /\ DeletesPlayer => PlayerTotals(stats', call'.player_id) = <<0, 0, 0, 0>>
     /\ TotalsOfDeleted => (call'.raised = "" /\ call'.ret = <<0, 0, 0, 0>>)]_vars

\* a player has just been deleted, a match is in the store, and a player who
\* is left has a goal
C13_Witness ==
  /\ call.op = "delete_player"
  /\ call.ret = TRUE
  /\ matches # {}
  /\ \E q \in players : PlayerTotals(stats, q.id)[1] = 1

\* C14: add_player_stats with an id of no player or of no match raises and
\* leaves the store as it is; with a player and a match of the store it adds
\* exactly one stat entry, of that player and that match.
C14_AddPlayerStats ==
  [][call'.op = "add_player_stats" =>
       IF /\ \E p \in players : p.id = call'.player_id
          /\ \E m \in matches : m.id = call'.match_id
       THEN /\ call'.raised = ""
            /\ players' = players
            /\ matches' = matches
            /\ call'.ret \notin stats
            /\ stats' = stats \cup {call'.ret}
            /\ \A s \in stats : s.id # call'.ret.id
            /\ call'.ret.player_id = call'.player_id
            /\ call'.ret.match_id = call'.match_id
       ELSE /\ call'.raised = "ValueError"
            /\ players' = players
            /\ matches' = matches
            /\ stats' = stats]_vars

\* an entry is in the store, and an add_player_stats for a player of the
\* store and a match that does not exist has just raised
C14_Witness ==
  /\ call.op = "add_player_stats"
  /\ call.raised = "ValueError"
  /\ \E p \in players : p.id = call.player_id
  /\ matches # {}
  /\ \A m \in matches : m.id # call.match_id
  /\ stats # {}

\* C15: every match of the store has both scores or neither, the matches
\* created through the form Crear partido with non-negative scores among them.
C15_BothScoresOrNone ==
  \A m \in matches : (m.home_score = None) <=> (m.away_score = None)

\* most recent first: a later date, or the same date and inserted earlier
\* (the ids of matches grow with every insertion, no match being deleted)
MoreRecentFirst(a, b) ==
  \/ StrLT(b.fecha, a.fecha)
  \/ a.fecha = b.fecha /\ a.id < b.id

C17_MatchesImmutable ==
  [][\A m \in matches :
       \E n \in matches' :
         /\ n.id = m.id
         /\ n.fecha = m.fecha
         /\ n.local = m.local
         /\ n.home_score = m.home_score
         /\ n.away_score = m.away_score]_vars

\* two matches, one of them with scores, and a player has just been deleted
C17_Witness ==
  /\ call.op = "delete_player"
  /\ call.ret = TRUE
  /\ Cardinality(matches) = 2
  /\ \E m \in matches : m.home_score = Some(MaxScore)
  /\ \E m \in matches : m.home_score = None

\* the step writes to the store
StoreChanged == players' # players \/ matches' # matches \/ stats' # stats

\* the pages a session offers and the page it is on: none without a login,
\* Inicio and Reportes and nothing else for a viewer
PagesByRole(state, on) ==
  /\ ~Authenticated(state) => (PAGES(RoleOf(state)) = << >> /\ on = None)
  /\ (Authenticated(state) /\ RoleOf(state) = Some("viewer")) =>
       /\ PageSet(RoleOf(state)) = {"Inicio", "Reportes"}
       /\ on \in {Some("Inicio"), Some("Reportes")}

\* C18: the store is written only by a session whose role is admin; a
\* session that is not logged in has no page and a viewer has Inicio and
\* Reportes only; a password that is neither the admin's nor a viewer's
\* leaves the session not logged in; Salir removes the keys authenticated,
\* role and username, after which there is no page.
C18_RoleGuards ==
  [][/\ StoreChanged =>
          (Authenticated(session_state) /\ RoleOf(session_state) = Some("admin"))
     /\ PagesByRole(session_state, page)
     /\ PagesByRole(session_state', page')
     /\ (call'.op = "entrar" /\ call'.password_input \notin ({ADMIN_PW} \cup VIEWER_PWS)) =>
          (~Authenticated(session_state') /\ session_state' = session_state)
     /\ call'.op = "salir" =>
          /\ DOMAIN session_state' \cap {"authenticated", "role", "username"} = {}
          /\ PAGES(RoleOf(session_state')) = << >>
          /\ page' = None]_vars

\* a viewer is on Reportes, in a session in which an admin, since logged
\* out, created a player and a match and asked for the uploader of a photo
C18_Witness ==
  /\ Authenticated(session_state)
  /\ RoleOf(session_state) = Some("viewer")
  /\ page = Some("Reportes")
  /\ players # {}
  /\ matches # {}
  /\ show_uploader # {}

====
